---- MODULE Spec2Model ----
(***************************************************************************)
(* Model of Device.GetCapabilities (device.go) of go-onvif: the decoded    *)
(* SOAP reply is an untyped tree, GetCapabilities looks up four paths in   *)
(* it and normalises them into a DeviceCapabilities value.                 *)
(*                                                                         *)
(* Go strings are TLA+ strings (Len, SubSeq and \o act on them), so that   *)
(* strings.ToLower and strings.Replace are computed character by           *)
(* character.  A Go map[string]bool is a record [nil, kv]: nil tells the   *)
(* nil map from a map made with make().  `for k, v := range m` visits the  *)
(* keys of m in an order the Go runtime chooses: the order is an input of  *)
(* every loop of the model.                                                *)
(***************************************************************************)
EXTENDS Integers, Sequences, FiniteSets, TLC

VARIABLES response, calls

vars == <<response, calls>>

-----------------------------------------------------------------------------
(* Bounds of the model *)

\* The largest number of keys of a generated Mapping node.
MaxKeys == 2

\* The number of GetCapabilities calls made against one device reply.
MaxCalls == 2

-----------------------------------------------------------------------------
(* The decoded tree: interface{} values as produced by the XML decoder *)

Null == [kind |-> "Null", str |-> "", bool |-> FALSE, num |-> 0, items |-> <<>>, kids |-> <<>>]

String(s) == [kind |-> "String", str |-> s, bool |-> FALSE, num |-> 0, items |-> <<>>, kids |-> <<>>]

Boolean(b) == [kind |-> "Boolean", str |-> "", bool |-> b, num |-> 0, items |-> <<>>, kids |-> <<>>]

Number(n) == [kind |-> "Number", str |-> "", bool |-> FALSE, num |-> n, items |-> <<>>, kids |-> <<>>]

List(xs) == [kind |-> "List", str |-> "", bool |-> FALSE, num |-> 0, items |-> xs, kids |-> <<>>]

Mapping(f) == [kind |-> "Mapping", str |-> "", bool |-> FALSE, num |-> 0, items |-> <<>>, kids |-> f]

\* The empty map[string]interface{}.
EmptyKids == [k \in {} |-> Null]

\* m1 extended by the entries of m2 (disjoint key sets).
Merge(m1, m2) == [k \in (DOMAIN m1) \cup (DOMAIN m2) |-> IF k \in DOMAIN m1 THEN m1[k] ELSE m2[k]]

\* The one-entry map {key: value}.
Entry(key, value) == [k \in {key} |-> value]

\* v.(map[string]interface{}): the second result of the type assertion.
IsMap(v) == v.kind = "Mapping"

\* m[key] on a map[string]interface{}: the nil interface when the key is missing.
MapIndex(m, key) == IF key \in DOMAIN m.kids THEN m.kids[key] ELSE Null

-----------------------------------------------------------------------------
(* Errors *)

nil == [type |-> "nil", path |-> ""]

NotFoundError(path) == [type |-> "NotFoundError", path |-> path]

TransportError == [type |-> "TransportError", path |-> ""]

-----------------------------------------------------------------------------
(* Go strings *)

UpperLetters == "ABCDEFGHIJKLMNOPQRSTUVWXYZ"

LowerLetters == "abcdefghijklmnopqrstuvwxyz"

\* The lower-case form of a one-character string.
LowerChar(c) ==
    IF \E i \in 1..Len(UpperLetters) : SubSeq(UpperLetters, i, i) = c
    THEN LET i == CHOOSE j \in 1..Len(UpperLetters) : SubSeq(UpperLetters, j, j) = c
         IN  SubSeq(LowerLetters, i, i)
    ELSE c

RECURSIVE ToLower(_)
\* strings.ToLower
ToLower(s) ==
    IF Len(s) = 0 THEN ""
    ELSE LowerChar(SubSeq(s, 1, 1)) \o ToLower(SubSeq(s, 2, Len(s)))

RECURSIVE Replace(_, _, _, _)
\* strings.Replace(s, old, new, n) for a non-empty old: the first n
\* non-overlapping occurrences of old, from the left, replaced by new; all of
\* them when n < 0.
Replace(s, old, new, n) ==
    IF n = 0 \/ Len(s) < Len(old) THEN s
    ELSE IF SubSeq(s, 1, Len(old)) = old
         THEN new \o Replace(SubSeq(s, Len(old) + 1, Len(s)), old, new, n - 1)
         ELSE SubSeq(s, 1, 1) \o Replace(SubSeq(s, 2, Len(s)), old, new, n)

RECURSIVE Split(_, _)
\* strings.Split(s, sep) for a one-character sep.
Split(s, sep) ==
    IF \A i \in 1..Len(s) : SubSeq(s, i, i) # sep THEN <<s>>
    ELSE LET i == CHOOSE j \in 1..Len(s) :
                      /\ SubSeq(s, j, j) = sep
                      /\ \A k \in 1..(j - 1) : SubSeq(s, k, k) # sep
         IN  <<SubSeq(s, 1, i - 1)>> \o Split(SubSeq(s, i + 1, Len(s)), sep)

-----------------------------------------------------------------------------
(* Path navigation *)

RECURSIVE Walk(_, _, _)
\* One Mapping lookup per path segment; the node at the last segment is
\* returned whatever its kind.
Walk(node, segments, path) ==
    IF segments = <<>> THEN [value |-> node, err |-> nil]
    ELSE IF ~IsMap(node) \/ Head(segments) \notin DOMAIN node.kids
         THEN [value |-> Null, err |-> NotFoundError(path)]
         ELSE Walk(node.kids[Head(segments)], Tail(segments), path)

\* response.ValueForPath(path)
ValueForPath(root, path) == Walk(root, Split(path, "."), path)

-----------------------------------------------------------------------------
(* Coercions *)

\* str, _ := src.(string)
interfaceToString(src) == IF src.kind = "String" THEN src.str ELSE ""

\* A comparison that forgets strings.ToLower.
interfaceToBoolCaseSensitive(src) == interfaceToString(src) = "true"

interfaceToBool(src) == ToLower(interfaceToString(src)) = "true"

-----------------------------------------------------------------------------
(* Go values of the result *)

\* The nil map[string]bool, the zero value of a map field.
NilMap == [nil |-> TRUE, kv |-> [k \in {} |-> FALSE]]

\* make(map[string]bool)
MakeMap == [nil |-> FALSE, kv |-> [k \in {} |-> FALSE]]

\* m[key] = value on a map made with make().
MapSet(m, key, value) ==
    [nil |-> FALSE,
     kv  |-> [k \in (DOMAIN m.kv) \cup {key} |-> IF k = key THEN value ELSE m.kv[k]]]

\* NetworkCapabilities{}
ZeroNetworkCapabilities ==
    [DynDNS |-> FALSE, IPFilter |-> FALSE, IPVersion6 |-> FALSE, ZeroConfig |-> FALSE,
     Extension |-> NilMap]

\* DeviceCapabilities{}
ZeroDeviceCapabilities ==
    [Network |-> ZeroNetworkCapabilities, Events |-> NilMap, Streaming |-> NilMap,
     PTZ |-> FALSE]

-----------------------------------------------------------------------------
(* GetCapabilities, section by section *)

envelopeBodyPath == "Envelope.Body.GetCapabilitiesResponse.Capabilities"

RECURSIVE RangeExtension(_, _, _)
\* for key, value := range mapNetExtension, the keys visited in `order`.
RangeExtension(mapNetExtension, order, extension) ==
    IF order = <<>> THEN extension
    ELSE LET key   == Head(order)
             value == mapNetExtension.kids[key]
         IN  RangeExtension(mapNetExtension, Tail(order),
                            MapSet(extension, key, interfaceToBool(value)))

\* A netCap that reads the wire field under the name of the struct field.
netCapZeroConfig(ifaceNetCap, order) ==
    IF IsMap(ifaceNetCap)
    THEN [DynDNS     |-> interfaceToBool(MapIndex(ifaceNetCap, "DynDNS")),
          IPFilter   |-> interfaceToBool(MapIndex(ifaceNetCap, "IPFilter")),
          IPVersion6 |-> interfaceToBool(MapIndex(ifaceNetCap, "IPVersion6")),
          ZeroConfig |-> interfaceToBool(MapIndex(ifaceNetCap, "ZeroConfig")),
          Extension  |->
              IF IsMap(MapIndex(ifaceNetCap, "Extension"))
              THEN RangeExtension(MapIndex(ifaceNetCap, "Extension"), order, MakeMap)
              ELSE MakeMap]
    ELSE ZeroNetworkCapabilities

\* The network capabilities built from the node found at .Device.Network.
netCap(ifaceNetCap, order) ==
    IF IsMap(ifaceNetCap)
    THEN [DynDNS     |-> interfaceToBool(MapIndex(ifaceNetCap, "DynDNS")),
          IPFilter   |-> interfaceToBool(MapIndex(ifaceNetCap, "IPFilter")),
          IPVersion6 |-> interfaceToBool(MapIndex(ifaceNetCap, "IPVersion6")),
          ZeroConfig |-> interfaceToBool(MapIndex(ifaceNetCap, "ZeroConfiguration")),
          Extension  |->
              IF IsMap(MapIndex(ifaceNetCap, "Extension"))
              THEN RangeExtension(MapIndex(ifaceNetCap, "Extension"), order, MakeMap)
              ELSE MakeMap]
    ELSE ZeroNetworkCapabilities

\* A skip test that forgets strings.ToLower.
IsXAddrCaseSensitive(key) == key = "xaddr"

\* The test that skips the service address among the Events fields.
IsXAddr(key) == ToLower(key) = "xaddr"

\* A renaming that removes every "WS".
EventsKeyAll(key) == Replace(key, "WS", "", -1)

\* The Events key: the first "WS" removed.
EventsKey(key) == Replace(key, "WS", "", 1)

RECURSIVE RangeEventsBreak(_, _, _)
\* A loop that leaves at the service address instead of skipping it.
RangeEventsBreak(mapEventsCap, order, events) ==
    IF order = <<>> THEN events
    ELSE LET key   == Head(order)
             value == mapEventsCap.kids[key]
         IN  IF IsXAddr(key)
             THEN events
             ELSE RangeEventsBreak(mapEventsCap, Tail(order),
                                   MapSet(events, EventsKey(key), interfaceToBool(value)))

RECURSIVE RangeEvents(_, _, _)
\* for key, value := range mapEventsCap, the keys visited in `order`.
RangeEvents(mapEventsCap, order, events) ==
    IF order = <<>> THEN events
    ELSE LET key   == Head(order)
             value == mapEventsCap.kids[key]
         IN  IF IsXAddr(key)
             THEN RangeEvents(mapEventsCap, Tail(order), events)
             ELSE RangeEvents(mapEventsCap, Tail(order),
                              MapSet(events, EventsKey(key), interfaceToBool(value)))

\* The events capabilities built from the node found at .Events.
eventsCap(ifaceEventsCap, order) ==
    IF IsMap(ifaceEventsCap)
    THEN RangeEvents(ifaceEventsCap, order, MakeMap)
    ELSE MakeMap

\* A renaming that replaces the first underscore only.
StreamingKeyFirst(key) == Replace(key, "_", " ", 1)

\* The Streaming key: every underscore replaced by a space.
StreamingKey(key) == Replace(key, "_", " ", -1)

RECURSIVE RangeStreaming(_, _, _)
\* for key, value := range mapStreamingCap, the keys visited in `order`.
RangeStreaming(mapStreamingCap, order, streaming) ==
    IF order = <<>> THEN streaming
    ELSE LET key   == Head(order)
             value == mapStreamingCap.kids[key]
         IN  RangeStreaming(mapStreamingCap, Tail(order),
                            MapSet(streaming, StreamingKey(key), interfaceToBool(value)))

\* The streaming capabilities built from the node found at
\* .Media.StreamingCapabilities.
streamingCap(ifaceStreamingCap, order) ==
    IF IsMap(ifaceStreamingCap)
    THEN RangeStreaming(ifaceStreamingCap, order, MakeMap)
    ELSE MakeMap

\* A PTZ flag that also wants a value at the path.
ptzCapNonNull(lookup) == lookup.err = nil /\ lookup.value # Null

\* ptzCap: true unless the lookup of .PTZ failed.
ptzCap(lookup) == lookup.err = nil

-----------------------------------------------------------------------------
(* GetCapabilities *)

\* The aggregate assembled from the four lookups.
deviceCapabilities(network, events, streaming, ptz, order) ==
    [Network   |-> netCap(network.value, order.extension),
     Events    |-> eventsCap(events.value, order.events),
     Streaming |-> streamingCap(streaming.value, order.streaming),
     PTZ       |-> ptzCap(ptz)]

\* A GetCapabilities that returns what it has built so far with the error.
GetCapabilitiesPartial(resp, order) ==
    LET network   == ValueForPath(resp.tree, envelopeBodyPath \o ".Device.Network")
        events    == ValueForPath(resp.tree, envelopeBodyPath \o ".Events")
        streaming == ValueForPath(resp.tree, envelopeBodyPath \o ".Media.StreamingCapabilities")
        ptz       == ValueForPath(resp.tree, envelopeBodyPath \o ".PTZ")
        built     == [ZeroDeviceCapabilities EXCEPT
                          !.Network = netCap(network.value, order.extension)]
    IN  IF resp.err # nil THEN [caps |-> ZeroDeviceCapabilities, err |-> resp.err]
        ELSE IF network.err # nil THEN [caps |-> ZeroDeviceCapabilities, err |-> network.err]
        ELSE IF events.err # nil THEN [caps |-> built, err |-> events.err]
        ELSE IF streaming.err # nil
             THEN [caps |-> [built EXCEPT !.Events = eventsCap(events.value, order.events)],
                   err  |-> streaming.err]
        ELSE [caps |-> deviceCapabilities(network, events, streaming, ptz, order),
              err  |-> nil]

\* A GetCapabilities that fails when a mandatory branch is no Mapping.
GetCapabilitiesStrict(resp, order) ==
    LET network   == ValueForPath(resp.tree, envelopeBodyPath \o ".Device.Network")
        events    == ValueForPath(resp.tree, envelopeBodyPath \o ".Events")
        streaming == ValueForPath(resp.tree, envelopeBodyPath \o ".Media.StreamingCapabilities")
        ptz       == ValueForPath(resp.tree, envelopeBodyPath \o ".PTZ")
    IN  IF resp.err # nil THEN [caps |-> ZeroDeviceCapabilities, err |-> resp.err]
        ELSE IF network.err # nil THEN [caps |-> ZeroDeviceCapabilities, err |-> network.err]
        ELSE IF ~IsMap(network.value)
             THEN [caps |-> ZeroDeviceCapabilities,
                   err  |-> NotFoundError(envelopeBodyPath \o ".Device.Network")]
        ELSE IF events.err # nil THEN [caps |-> ZeroDeviceCapabilities, err |-> events.err]
        ELSE IF ~IsMap(events.value)
             THEN [caps |-> ZeroDeviceCapabilities,
                   err  |-> NotFoundError(envelopeBodyPath \o ".Events")]
        ELSE IF streaming.err # nil
             THEN [caps |-> ZeroDeviceCapabilities, err |-> streaming.err]
        ELSE [caps |-> deviceCapabilities(network, events, streaming, ptz, order),
              err  |-> nil]

\* device.GetCapabilities() on the reply `resp` of soap.SendRequest, the three
\* range loops visiting their keys in order.extension, order.events and
\* order.streaming.
GetCapabilities(resp, order) ==
    LET network   == ValueForPath(resp.tree, envelopeBodyPath \o ".Device.Network")
        events    == ValueForPath(resp.tree, envelopeBodyPath \o ".Events")
        streaming == ValueForPath(resp.tree, envelopeBodyPath \o ".Media.StreamingCapabilities")
        ptz       == ValueForPath(resp.tree, envelopeBodyPath \o ".PTZ")
    IN  IF resp.err # nil THEN [caps |-> ZeroDeviceCapabilities, err |-> resp.err]
        ELSE IF network.err # nil THEN [caps |-> ZeroDeviceCapabilities, err |-> network.err]
        ELSE IF events.err # nil THEN [caps |-> ZeroDeviceCapabilities, err |-> events.err]
        ELSE IF streaming.err # nil
             THEN [caps |-> ZeroDeviceCapabilities, err |-> streaming.err]
        ELSE [caps |-> deviceCapabilities(network, events, streaming, ptz, order),
              err  |-> nil]

-----------------------------------------------------------------------------
(* The orders a range loop may visit a map in *)

\* The sequences that list every element of S once.
Orders(S) ==
    {o \in [1..Cardinality(S) -> S] : \A i, j \in 1..Cardinality(S) : i # j => o[i] # o[j]}

\* The keys of the Mapping at path, none when there is no Mapping there.
KeysAt(resp, path) ==
    LET found == ValueForPath(resp.tree, path)
    IN  IF found.err = nil /\ IsMap(found.value) THEN DOMAIN found.value.kids ELSE {}

\* One visiting order for each of the three range loops of GetCapabilities.
RangeOrders(resp) ==
    [extension : Orders(KeysAt(resp, envelopeBodyPath \o ".Device.Network.Extension")),
     events    : Orders(KeysAt(resp, envelopeBodyPath \o ".Events")),
     streaming : Orders(KeysAt(resp, envelopeBodyPath \o ".Media.StreamingCapabilities"))]

-----------------------------------------------------------------------------
(* Device replies *)

\* The maps from at most n of the keys to the values.
KidsUpTo(keys, values, n) ==
    UNION {[ks -> values] : ks \in {S \in SUBSET keys : Cardinality(S) <= n}}

\* Nodes that are no Mapping.
Shapes == {Null, String("true"), Number(1), Boolean(TRUE), List(<<String("true")>>)}

\* The values a capability flag is coerced from.
CoercionValues ==
    {String("true"), String("TRUE"), String("True"), String("tRuE"), String("false"),
     String("1"), String("yes"), String(""), String(" true"), String("true "),
     Null, Boolean(TRUE), Boolean(FALSE), Number(1), List(<<String("true")>>),
     Mapping(Entry("true", String("true")))}

FlagValues == {String("true"), String("false")}

NetworkFields == {"DynDNS", "IPFilter", "IPVersion6", "ZeroConfiguration", "ZeroConfig"}

ExtensionKeys == {"Foo", "Dot11Configuration"}

ExtensionValues == {String("true"), String("TRUE"), String("0")}

EventsKeys ==
    {"WSPullPointSupport", "PullPointSupport", "WSNotificationSubscription",
     "WSWSNotificationSubscription", "XAddr", "xaddr", "WSXAddr", "wsPullPoint"}

EventsValues == {String("true"), String("http://x")}

StreamingKeys ==
    {"RTP_Multicast", "RTP_TCP", "RTP TCP", "RTP_RTSP_TCP", "RTPMulticast", "xaddr"}

\* The Network, Events and StreamingCapabilities nodes of the end-to-end
\* scenario.
BasicNetwork ==
    Mapping(Merge(Merge(Entry("DynDNS", String("false")), Entry("IPFilter", String("true"))),
                  Merge(Merge(Entry("IPVersion6", String("false")),
                              Entry("ZeroConfiguration", String("true"))),
                        Entry("Extension", Mapping(Entry("Foo", String("true")))))))

BasicEvents ==
    Mapping(Merge(Entry("WSPullPoint", String("true")), Entry("XAddr", String("http://x"))))

BasicStreaming == Mapping(Entry("RTP_TCP", String("true")))

\* The decoded envelope around the entries of the Capabilities node.
Envelope(capabilities) ==
    Mapping(Entry("Envelope",
        Mapping(Entry("Body",
            Mapping(Entry("GetCapabilitiesResponse",
                Mapping(Entry("Capabilities", Mapping(capabilities)))))))))

\* A reply of soap.SendRequest without error.
Reply(device, events, media, ptz) ==
    [tree |-> Envelope(Merge(Merge(device, events), Merge(media, ptz))), err |-> nil]

Network(node) == Entry("Device", Mapping(Entry("Network", node)))

Events(node) == Entry("Events", node)

Streaming(node) == Entry("Media", Mapping(Entry("StreamingCapabilities", node)))

\* Every branch absent, cut short, of a wrong shape or as in the scenario.
PresenceReplies ==
    {Reply(d, e, m, p) :
        d \in {EmptyKids, Entry("Device", String("x")), Entry("Device", Mapping(EmptyKids))}
              \cup {Network(n) : n \in Shapes \cup {BasicNetwork}},
        e \in {EmptyKids} \cup {Events(n) : n \in Shapes \cup {BasicEvents}},
        m \in {EmptyKids, Entry("Media", String("x")), Entry("Media", Mapping(EmptyKids))}
              \cup {Streaming(n) : n \in Shapes \cup {BasicStreaming}},
        p \in {EmptyKids} \cup {Entry("PTZ", n) : n \in {Null, String("x"), Mapping(EmptyKids)}}}

\* The Network node varied: its flags, and its Extension absent, of a wrong
\* shape or a Mapping.
NetworkReplies ==
    {Reply(Network(Mapping(Merge(flags, extension))), Events(BasicEvents),
           Streaming(BasicStreaming), EmptyKids) :
        flags \in KidsUpTo(NetworkFields, FlagValues, MaxKeys),
        extension \in {EmptyKids}
                      \cup {Entry("Extension", n) : n \in Shapes}
                      \cup {Entry("Extension", Mapping(x)) :
                                x \in KidsUpTo(ExtensionKeys, ExtensionValues, MaxKeys)}}

\* One Network flag over every value it may be coerced from.
CoercionReplies ==
    {Reply(Network(Mapping(Entry("DynDNS", v))), Events(BasicEvents),
           Streaming(BasicStreaming), EmptyKids) : v \in CoercionValues}

\* The Events node varied.
EventsReplies ==
    {Reply(Network(BasicNetwork), Events(Mapping(x)), Streaming(BasicStreaming), EmptyKids) :
        x \in KidsUpTo(EventsKeys, EventsValues, MaxKeys)}

\* The StreamingCapabilities node varied.
StreamingReplies ==
    {Reply(Network(BasicNetwork), Events(BasicEvents), Streaming(Mapping(x)), EmptyKids) :
        x \in KidsUpTo(StreamingKeys, FlagValues, MaxKeys)}

\* A failed request, and a reply that holds no Envelope.
FailedReplies ==
    {[tree |-> Null, err |-> TransportError],
     [tree |-> Mapping(Entry("Fault", String("x"))), err |-> nil]}

Replies ==
    PresenceReplies \cup NetworkReplies \cup CoercionReplies \cup EventsReplies
        \cup StreamingReplies \cup FailedReplies

-----------------------------------------------------------------------------
(* The state machine *)

\* The device's reply is fixed; no call has been made.
Init ==
    /\ response \in Replies
    /\ calls = <<>>

\* One call of GetCapabilities: its result is appended to calls.
CallGetCapabilities ==
    /\ Len(calls) < MaxCalls
    /\ \E order \in RangeOrders(response) :
           calls' = Append(calls, GetCapabilities(response, order))
    /\ UNCHANGED response

Next == CallGetCapabilities

Spec == Init /\ [][Next]_vars

-----------------------------------------------------------------------------
(* What the properties speak of *)

\* The results of the calls made so far.
Results == {calls[i] : i \in 1..Len(calls)}

\* The request was answered with a decoded tree.
Decoded == response.err = nil

WireNetwork == ValueForPath(response.tree, envelopeBodyPath \o ".Device.Network")

WireEvents == ValueForPath(response.tree, envelopeBodyPath \o ".Events")

WireStreaming == ValueForPath(response.tree, envelopeBodyPath \o ".Media.StreamingCapabilities")

WirePTZ == ValueForPath(response.tree, envelopeBodyPath \o ".PTZ")

\* The three mandatory branches are in the tree.
MandatoryPresent ==
    Decoded /\ WireNetwork.err = nil /\ WireEvents.err = nil /\ WireStreaming.err = nil

\* The keys of a node, none when it is no Mapping.
WireKeys(node) == IF IsMap(node) THEN DOMAIN node.kids ELSE {}

\* asBool of the specification: a String that reads "true" in any casing.
asBool(value) == value.kind = "String" /\ ToLower(value.str) = "true"

\* sub occurs in s at position i.
OccursAt(s, sub, i) ==
    /\ i + Len(sub) - 1 <= Len(s)
    /\ SubSeq(s, i, i + Len(sub) - 1) = sub

\* k is w without its first "WS" (k is w when w holds no "WS").
FirstWSRemoved(w, k) ==
    \/ /\ \A i \in 1..Len(w) : ~OccursAt(w, "WS", i)
       /\ k = w
    \/ \E i \in 1..Len(w) :
          /\ OccursAt(w, "WS", i)
          /\ \A j \in 1..(i - 1) : ~OccursAt(w, "WS", j)
          /\ k = SubSeq(w, 1, i - 1) \o SubSeq(w, i + Len("WS"), Len(w))

\* k is w with each underscore turned into a space.
UnderscoresReplaced(w, k) ==
    /\ Len(k) = Len(w)
    /\ \A i \in 1..Len(w) :
          SubSeq(k, i, i) = (IF SubSeq(w, i, i) = "_" THEN " " ELSE SubSeq(w, i, i))

\* a and b differ only where one has an underscore and the other a space.
SameButUnderscores(a, b) ==
    /\ Len(a) = Len(b)
    /\ \A i \in 1..Len(a) :
          \/ SubSeq(a, i, i) = SubSeq(b, i, i)
          \/ {SubSeq(a, i, i), SubSeq(b, i, i)} = {"_", " "}

\* w, and w with two adjacent characters taken out.
WithoutTwoChars(w) ==
    {w} \cup {SubSeq(w, 1, i - 1) \o SubSeq(w, i + Len("WS"), Len(w)) : i \in 1..Len(w)}

\* The wire keys of the Events branch that are not the service address.
EventsFlagKeys == {w \in WireKeys(WireEvents.value) : ToLower(w) # "xaddr"}

-----------------------------------------------------------------------------
(* C1 *)

\* The first mandatory branch the tree lacks, in the order Network, Events,
\* Streaming.
FirstMissing ==
    IF WireNetwork.err # nil THEN WireNetwork.err
    ELSE IF WireEvents.err # nil THEN WireEvents.err
    ELSE WireStreaming.err

\* C1: when the decoded tree lacks Device.Network, Events or
\* Media.StreamingCapabilities, every call returns the zero DeviceCapabilities
\* with the NotFoundError of the first missing branch (Network, Events,
\* Streaming), whatever the other branches hold; and no result pairs an error
\* with anything but the zero DeviceCapabilities.
AllOrNothing ==
    \A r \in Results :
        /\ (Decoded /\ ~MandatoryPresent) =>
               /\ r.caps = ZeroDeviceCapabilities
               /\ r.err = FirstMissing
               /\ r.err.type = "NotFoundError"
               /\ r.err.path \in {envelopeBodyPath \o ".Device.Network",
                                  envelopeBodyPath \o ".Events",
                                  envelopeBodyPath \o ".Media.StreamingCapabilities"}
        /\ r.err # nil => r.caps = ZeroDeviceCapabilities

\* A call failed on the missing Events branch of a tree whose Network branch
\* is a Mapping with flags set and whose PTZ branch is present.
AllOrNothingWitness ==
    /\ Decoded
    /\ WireNetwork.err = nil /\ WireNetwork.value = BasicNetwork
    /\ WireEvents.err # nil
    /\ WireStreaming.err = nil
    /\ WirePTZ.err = nil
    /\ \E r \in Results :
          r.err = NotFoundError(envelopeBodyPath \o ".Events") /\ r.caps = ZeroDeviceCapabilities

-----------------------------------------------------------------------------
(* C2 *)

\* The Capabilities node is a Mapping that has the key PTZ.
HasPTZ ==
    LET capabilities == ValueForPath(response.tree, envelopeBodyPath)
    IN  /\ capabilities.err = nil
        /\ "PTZ" \in WireKeys(capabilities.value)

\* C2: with the mandatory branches present, a call returns no error and its
\* PTZ is true exactly when the tree has a value, Null included, at
\* Capabilities.PTZ; the NotFoundError of the PTZ lookup is returned by no
\* call.
PresenceOnlyPTZ ==
    \A r \in Results :
        /\ MandatoryPresent => (r.err = nil /\ r.caps.PTZ = HasPTZ)
        /\ r.err # NotFoundError(envelopeBodyPath \o ".PTZ")

\* A call answered PTZ = true for a tree that holds Null at Capabilities.PTZ.
PresenceOnlyPTZWitness ==
    /\ MandatoryPresent
    /\ WirePTZ.err = nil /\ WirePTZ.value = Null
    /\ \E r \in Results : r.err = nil /\ r.caps.PTZ

-----------------------------------------------------------------------------
(* C3 *)

\* C3 as stated: no key of a returned Events or Streaming mapping reads
\* "xaddr" once lower-cased, and a wire key of the Events branch that reads
\* "xaddr" once lower-cased is no key of the returned Events mapping.
NoXAddrKey ==
    \A r \in Results :
        /\ \A k \in (DOMAIN r.caps.Events.kv) \cup (DOMAIN r.caps.Streaming.kv) :
               ToLower(k) # "xaddr"
        /\ \A w \in WireKeys(WireEvents.value) :
               ToLower(w) = "xaddr" => w \notin DOMAIN r.caps.Events.kv

\* C3, amended: every key of a returned Events mapping is the renamed form
\* (first "WS" removed) of a wire key of the Events branch that does not read
\* "xaddr" once lower-cased: a wire key "XAddr"/"xaddr" brings no entry, and a
\* returned key that reads "xaddr" once lower-cased is the renamed form of
\* another wire key.
XAddrBringsNoEntry ==
    \A r \in Results :
        \A k \in DOMAIN r.caps.Events.kv :
            /\ \E w \in EventsFlagKeys : FirstWSRemoved(w, k)
            /\ ToLower(k) = "xaddr" =>
                   \E w \in EventsFlagKeys : w # k /\ FirstWSRemoved(w, k)

\* A call returned a non-empty Events mapping without the key "XAddr" for a
\* tree whose Events branch holds the key "XAddr".
XAddrBringsNoEntryWitness ==
    /\ MandatoryPresent
    /\ "XAddr" \in WireKeys(WireEvents.value)
    /\ \E r \in Results :
          /\ r.err = nil
          /\ DOMAIN r.caps.Events.kv # {}
          /\ "XAddr" \notin DOMAIN r.caps.Events.kv

-----------------------------------------------------------------------------
(* C4 *)

\* C4 as stated: in every result returned without error, Network.Extension is
\* a map made with make(), never the nil map, whatever the shape of the node
\* at Capabilities.Device.Network.
ExtensionNeverNil ==
    \A r \in Results : r.err = nil => ~r.caps.Network.Extension.nil

-----------------------------------------------------------------------------
(* C5 *)

\* Two wire keys of the Events branch, neither the service address, are
\* renamed to one key and coerce to different values.
EventsCollision ==
    \E a, b \in EventsFlagKeys :
        /\ a # b
        /\ \E k \in WithoutTwoChars(a) : FirstWSRemoved(a, k) /\ FirstWSRemoved(b, k)
        /\ asBool(WireEvents.value.kids[a]) # asBool(WireEvents.value.kids[b])

\* Two wire keys of the StreamingCapabilities branch are renamed to one key
\* and coerce to different values.
StreamingCollision ==
    \E a, b \in WireKeys(WireStreaming.value) :
        /\ a # b
        /\ SameButUnderscores(a, b)
        /\ asBool(WireStreaming.value.kids[a]) # asBool(WireStreaming.value.kids[b])

\* C5 as stated: any two calls on the same reply return equal
\* DeviceCapabilities and the same error, colliding wire keys included.
Deterministic == \A r1, r2 \in Results : r1 = r2

\* C5, amended: any two calls on the same reply return equal
\* DeviceCapabilities and the same error, provided no two distinct wire keys
\* of the Events branch (the service address aside) or of the
\* StreamingCapabilities branch are renamed to the same key with different
\* coerced values.
DeterministicWithoutCollision ==
    (~(MandatoryPresent /\ (EventsCollision \/ StreamingCollision)))
        => \A r1, r2 \in Results : r1 = r2

\* Two calls returned the same result for a tree whose Events branch holds
\* two flags and the service address, the loop free to visit them in any
\* order.
DeterministicWithoutCollisionWitness ==
    /\ MandatoryPresent
    /\ Cardinality(EventsFlagKeys) = MaxKeys
    /\ \E a, b \in EventsFlagKeys :
          asBool(WireEvents.value.kids[a]) # asBool(WireEvents.value.kids[b])
    /\ Len(calls) = MaxCalls
    /\ calls[1] = calls[Len(calls)]
    /\ calls[1].err = nil
    /\ Cardinality(DOMAIN calls[1].caps.Events.kv) = MaxKeys

-----------------------------------------------------------------------------
(* C6 *)

\* C6: the DynDNS of a result is true exactly when the wire field DynDNS is a
\* String that reads "true" once lower-cased: "true" and "TRUE" give true;
\* "1", "yes", "", " true" and every node that is no String (Null, Boolean
\* true, Number, List, Mapping), and a missing field, give false.
BoolCoercion ==
    \A r \in Results :
        (MandatoryPresent /\ IsMap(WireNetwork.value)) =>
            LET v == MapIndex(WireNetwork.value, "DynDNS")
            IN  /\ r.caps.Network.DynDNS = asBool(v)
                /\ v \in {String("true"), String("TRUE")} => r.caps.Network.DynDNS
                /\ v \in {String("1"), String("yes"), String(""), String(" true")}
                       => ~r.caps.Network.DynDNS
                /\ v.kind # "String" => ~r.caps.Network.DynDNS

\* A call returned DynDNS = true for the wire value "TRUE".
BoolCoercionWitness ==
    /\ MandatoryPresent
    /\ IsMap(WireNetwork.value)
    /\ MapIndex(WireNetwork.value, "DynDNS") = String("TRUE")
    /\ \E r \in Results : r.err = nil /\ r.caps.Network.DynDNS

-----------------------------------------------------------------------------
(* C7 *)

\* The keys of a returned Events mapping are the wire keys of the Events
\* branch, the service address aside, each without its first "WS".
EventsKeysRenamed(r) ==
    /\ \A w \in EventsFlagKeys : \E k \in DOMAIN r.caps.Events.kv : FirstWSRemoved(w, k)
    /\ \A k \in DOMAIN r.caps.Events.kv : \E w \in EventsFlagKeys : FirstWSRemoved(w, k)

\* C7 as stated: the Events keys are the renamed wire keys, and a tree whose
\* Events branch holds "WSNotificationSubscription" gives an Events mapping
\* with the key "NotificationSubscription" and without the key
\* "WSNotificationSubscription", whatever the other keys of the branch.
EventsRenaming ==
    \A r \in Results :
        MandatoryPresent =>
            /\ EventsKeysRenamed(r)
            /\ "WSNotificationSubscription" \in WireKeys(WireEvents.value) =>
                   /\ "NotificationSubscription" \in DOMAIN r.caps.Events.kv
                   /\ "WSNotificationSubscription" \notin DOMAIN r.caps.Events.kv

\* C7, amended: the Events keys are the renamed wire keys, and a tree whose
\* Events branch holds "WSNotificationSubscription" gives an Events mapping
\* with the key "NotificationSubscription"; it has the key
\* "WSNotificationSubscription" only when another wire key of the branch is
\* renamed to it.
EventsRenamingUnlessRenamedTo ==
    \A r \in Results :
        MandatoryPresent =>
            /\ EventsKeysRenamed(r)
            /\ "WSNotificationSubscription" \in WireKeys(WireEvents.value) =>
                   /\ "NotificationSubscription" \in DOMAIN r.caps.Events.kv
                   /\ "WSNotificationSubscription" \in DOMAIN r.caps.Events.kv =>
                          \E w \in EventsFlagKeys :
                              /\ w # "WSNotificationSubscription"
                              /\ FirstWSRemoved(w, "WSNotificationSubscription")

\* A call renamed "WSNotificationSubscription", next to another flag of the
\* branch, and the original key is gone.
EventsRenamingUnlessRenamedToWitness ==
    /\ MandatoryPresent
    /\ "WSNotificationSubscription" \in WireKeys(WireEvents.value)
    /\ Cardinality(EventsFlagKeys) = MaxKeys
    /\ \E r \in Results :
          /\ r.err = nil
          /\ "NotificationSubscription" \in DOMAIN r.caps.Events.kv
          /\ "WSNotificationSubscription" \notin DOMAIN r.caps.Events.kv

-----------------------------------------------------------------------------
(* C8 *)

\* C8: the keys of a returned Streaming mapping are the wire keys of the
\* StreamingCapabilities branch with every underscore turned into a space, no
\* returned key holds an underscore, a wire key that collides with no other
\* keeps its coerced value, and "RTP_Multicast" gives "RTP Multicast".
StreamingRenaming ==
    \A r \in Results :
        MandatoryPresent =>
            LET wire == WireKeys(WireStreaming.value)
                got  == r.caps.Streaming.kv
            IN  /\ \A w \in wire : \E k \in DOMAIN got : UnderscoresReplaced(w, k)
                /\ \A k \in DOMAIN got : \E w \in wire : UnderscoresReplaced(w, k)
                /\ \A k \in DOMAIN got : \A i \in 1..Len(k) : SubSeq(k, i, i) # "_"
                /\ \A w \in wire :
                       (\A x \in wire \ {w} : ~SameButUnderscores(w, x)) =>
                           \A k \in DOMAIN got :
                               UnderscoresReplaced(w, k) =>
                                   got[k] = asBool(WireStreaming.value.kids[w])
                /\ "RTP_Multicast" \in wire => "RTP Multicast" \in DOMAIN got

\* A call renamed "RTP_RTSP_TCP", a key with two underscores.
StreamingRenamingWitness ==
    /\ MandatoryPresent
    /\ "RTP_RTSP_TCP" \in WireKeys(WireStreaming.value)
    /\ asBool(WireStreaming.value.kids["RTP_RTSP_TCP"])
    /\ \E r \in Results :
          /\ r.err = nil
          /\ "RTP RTSP TCP" \in DOMAIN r.caps.Streaming.kv
          /\ r.caps.Streaming.kv["RTP RTSP TCP"]

-----------------------------------------------------------------------------
(* C9 *)

\* The reply of the end-to-end scenario: no PTZ branch.
EndToEndReply ==
    Reply(Network(BasicNetwork), Events(BasicEvents), Streaming(BasicStreaming), EmptyKids)

\* The DeviceCapabilities expected of the end-to-end scenario.
EndToEndCapabilities ==
    [Network   |-> [DynDNS |-> FALSE, IPFilter |-> TRUE, IPVersion6 |-> FALSE,
                    ZeroConfig |-> TRUE,
                    Extension |-> [nil |-> FALSE, kv |-> [k \in {"Foo"} |-> TRUE]]],
     Events    |-> [nil |-> FALSE, kv |-> [k \in {"PullPoint"} |-> TRUE]],
     Streaming |-> [nil |-> FALSE, kv |-> [k \in {"RTP TCP"} |-> TRUE]],
     PTZ       |-> FALSE]

\* The wire field of the Network Mapping, Null when it is missing.
WireField(name) == MapIndex(WireNetwork.value, name)

\* C9: with the mandatory branches present and a Mapping at Device.Network,
\* DynDNS, IPFilter and IPVersion6 are asBool of the wire fields of the same
\* name, ZeroConfig is asBool of the wire field ZeroConfiguration (a wire
\* field ZeroConfig is not read), a missing field gives false,
\* Network.Extension has the keys of the wire Extension Mapping, each with
\* asBool of its value; and the end-to-end reply gives the expected
\* DeviceCapabilities.
NetworkMapping ==
    \A r \in Results :
        /\ (MandatoryPresent /\ IsMap(WireNetwork.value)) =>
               LET net == r.caps.Network
                   ext == WireField("Extension")
               IN  /\ net.DynDNS = asBool(WireField("DynDNS"))
                   /\ net.IPFilter = asBool(WireField("IPFilter"))
                   /\ net.IPVersion6 = asBool(WireField("IPVersion6"))
                   /\ net.ZeroConfig = asBool(WireField("ZeroConfiguration"))
                   /\ "DynDNS" \notin WireKeys(WireNetwork.value) => ~net.DynDNS
                   /\ "IPFilter" \notin WireKeys(WireNetwork.value) => ~net.IPFilter
                   /\ "IPVersion6" \notin WireKeys(WireNetwork.value) => ~net.IPVersion6
                   /\ "ZeroConfiguration" \notin WireKeys(WireNetwork.value)
                          => ~net.ZeroConfig
                   /\ DOMAIN net.Extension.kv = WireKeys(ext)
                   /\ \A k \in WireKeys(ext) : net.Extension.kv[k] = asBool(ext.kids[k])
        /\ response = EndToEndReply => r = [caps |-> EndToEndCapabilities, err |-> nil]

\* A call on the end-to-end reply returned the expected DeviceCapabilities.
NetworkMappingWitness ==
    /\ response = EndToEndReply
    /\ \E r \in Results : r = [caps |-> EndToEndCapabilities, err |-> nil]

-----------------------------------------------------------------------------
(* C10 *)

\* The map has no entry.
IsEmpty(m) == DOMAIN m.kv = {}

\* C10: with the mandatory branches present a call returns no error, whatever
\* their shapes; a branch, or the Extension node, that is no Mapping gives an
\* empty Events, Streaming or Extension mapping, and a Network that is no
\* Mapping gives four false flags; the branches of the end-to-end scenario
\* still give their sections next to a branch of a wrong shape.
ShapeMismatchTolerated ==
    \A r \in Results :
        MandatoryPresent =>
            /\ r.err = nil
            /\ ~IsMap(WireNetwork.value) =>
                   /\ ~r.caps.Network.DynDNS /\ ~r.caps.Network.IPFilter
                   /\ ~r.caps.Network.IPVersion6 /\ ~r.caps.Network.ZeroConfig
                   /\ IsEmpty(r.caps.Network.Extension)
            /\ (IsMap(WireNetwork.value) /\ ~IsMap(WireField("Extension"))) =>
                   IsEmpty(r.caps.Network.Extension)
            /\ ~IsMap(WireEvents.value) => IsEmpty(r.caps.Events)
            /\ ~IsMap(WireStreaming.value) => IsEmpty(r.caps.Streaming)
            /\ WireNetwork.value = BasicNetwork =>
                   r.caps.Network = EndToEndCapabilities.Network
            /\ WireEvents.value = BasicEvents => r.caps.Events = EndToEndCapabilities.Events
            /\ WireStreaming.value = BasicStreaming =>
                   r.caps.Streaming = EndToEndCapabilities.Streaming

\* A call returned no error, no Network flag and the Events of the scenario
\* for a tree whose Network node is the String "true" and whose
\* StreamingCapabilities node is a List.
ShapeMismatchToleratedWitness ==
    /\ MandatoryPresent
    /\ WireNetwork.value = String("true")
    /\ WireEvents.value = BasicEvents
    /\ WireStreaming.value.kind = "List"
    /\ \E r \in Results :
          /\ r.err = nil
          /\ r.caps.Network = ZeroNetworkCapabilities
          /\ r.caps.Events = EndToEndCapabilities.Events
          /\ IsEmpty(r.caps.Streaming)

====
